---- MODULE Spec2Model ----
(***************************************************************************)
(* A model of two programs of novo_muta:                                   *)
(*   counts_probability.cc  (the simulation cross-check utility), and      *)
(*   bam_driver.cc          (the EM driver fitting sequencing_error_rate). *)
(* Doubles are modelled as exact rationals <<numerator, denominator>> in   *)
(* lowest terms (counts_probability) and as points of an integer grid      *)
(* (the sequencing error rate of the EM driver).                           *)
(***************************************************************************)
EXTENDS Integers, Sequences, FiniteSets, TLC

VARIABLES
  \* ---- counts_probability.cc ----
  cpc,                    \* position of counts_probability's main
  argc,                   \* number of command line words
  finOpen,                \* whether the input file can be opened
  file,                   \* the lines of the input file
  pos,                    \* number of lines getline has delivered
  index,                  \* int index
  has_mutation_total,     \* int has_mutation_total
  has_no_mutation_total,  \* int has_no_mutation_total
  total_trios,            \* int total_trios
  probability,            \* double probability
  probabilities,          \* vector<double> probabilities
  fout,                   \* the text lines written to the output file
  foutOpen,               \* whether fout is still open
  \* ---- bam_driver.cc, from line 69 on ----
  epc,                    \* position of bam_driver's main
  vsites,                 \* v->sites(): the sites the pileup collected
  estep,                  \* the data: for each rate, the per-site statistic
                          \* one E-step pass over the sites yields under it
  params,                 \* TrioModel params
  sites,                  \* const TrioVector sites
  stats,                  \* SufficientStatistics stats
  maximized,              \* double maximized
  count,                  \* int count
  cout,                   \* the rates written to cout
  calls                   \* history: the calls made on params and stats

cvars == <<cpc, argc, finOpen, file, pos, index, has_mutation_total,
           has_no_mutation_total, total_trios, probability, probabilities,
           fout, foutOpen>>

evars == <<epc, vsites, estep, params, sites, stats, maximized, count, cout,
           calls>>

vars == <<cvars, evars>>

-----------------------------------------------------------------------------
(* Bounds of the model. *)
MaxLines == 2
MaxRate == 3
MaxSites == 2
MaxIter == 3

(* The values a numeric field of an input line is drawn from, and the
   values of the index column. *)
CountVals == {0, 10, 20, 90}
IndexVals == {0, 1}

-----------------------------------------------------------------------------
(* Helpers on numbers. *)
Abs(x) == IF x < 0 THEN -x ELSE x

RECURSIVE Gcd(_, _)
Gcd(a, b) == IF b = 0 THEN a ELSE Gcd(b, a % b)

RECURSIVE Pow10(_)
Pow10(k) == IF k = 0 THEN 1 ELSE 10 * Pow10(k - 1)

(* The double 0.0. *)
Zero == <<0, 1>>

(* m / t without the cast to double: the division of ints. *)
DivideInts(m, t) == <<m \div t, 1>>

(* (double) m / t for ints m >= 0 and t > 0: the quotient, in lowest terms. *)
Divide(m, t) == LET g == Gcd(m, t) IN <<m \div g, t \div g>>

-----------------------------------------------------------------------------
(* An input line is the sequence of its white-space separated fields.  A
   field is a record: ok says whether it reads as a decimal int, v is the
   int.  *)
Num(n) == [ok |-> TRUE, v |-> n]
Junk    == [ok |-> FALSE, v |-> 0]

IndexField == {Num(n) : n \in IndexVals} \cup {Junk}
CountField == {Num(n) : n \in CountVals} \cup {Junk}

Lines ==
  {<<>>}
  \cup {<<i>> : i \in IndexField}
  \cup {<<i, m>> : i \in IndexField, m \in CountField}
  \cup {<<i, m, n>> : i \in IndexField, m \in CountField, n \in CountField}

Files == UNION {[1..k -> Lines] : k \in 0..MaxLines}

(* str >> x for an int x, on the stream str of a line.  s is the stream:
   its line, the number of fields consumed, and good().  The result is the
   stream after the extraction and the value of x after it.
     - a stream that is not good(): the sentry fails, x is left as it was;
     - no field left: the sentry meets the end of the line while skipping
       white space, sets eofbit and failbit, x is left as it was;
     - a field that is no int: num_get fails, 0 is stored (C++11), failbit;
     - a field that is an int: it is stored.                               *)
Extract(s, x) ==
  IF ~s.good THEN [s |-> s, x |-> x]
  ELSE IF s.at >= Len(s.line)
    THEN [s |-> [s EXCEPT !.good = FALSE], x |-> x]
  ELSE LET f == s.line[s.at + 1] IN
    IF f.ok
      THEN [s |-> [s EXCEPT !.at = s.at + 1], x |-> f.v]
      ELSE [s |-> [s EXCEPT !.at = s.at + 1, !.good = FALSE], x |-> 0]

(* stringstream str(line). *)
Stream(line) == [line |-> line, at |-> 0, good |-> TRUE]

(* The body of the while loop for one line: the three extractions, the
   total, the probability.  *)
Row(line, idx, m, n) ==
  LET e1 == Extract(Stream(line), idx)
      e2 == Extract(e1.s, m)
      e3 == Extract(e2.s, n)
      t  == e2.x + e3.x
  IN [index |-> e1.x, m |-> e2.x, n |-> e3.x, total |-> t,
      p |-> IF t = 0 THEN Zero ELSE Divide(e2.x, t)]

-----------------------------------------------------------------------------
(* operator<<(ostream&, double) with the default precision 6 and the default
   (general) float format, for a value 0 <= p <= 1: p rounded to six
   significant digits, trailing zeros dropped.  The text is modelled by the
   decimal it denotes: [mant, exp] is mant / 10^exp.  *)
RECURSIVE Scale(_, _)
Scale(p, e) ==
  IF p[1] * Pow10(e) >= 100000 * p[2] THEN e ELSE Scale(p, e + 1)

RoundHalfEven(a, b) ==
  LET q == a \div b
      r == a % b
  IN IF 2 * r > b \/ (2 * r = b /\ q % 2 = 1) THEN q + 1 ELSE q

RECURSIVE Strip(_)
Strip(d) ==
  IF d.exp > 0 /\ d.mant % 10 = 0
    THEN Strip([mant |-> d.mant \div 10, exp |-> d.exp - 1])
    ELSE d

Format(p) ==
  IF p[1] = 0 THEN [mant |-> 0, exp |-> 0]
  ELSE LET e == Scale(p, 0)
       IN Strip([mant |-> RoundHalfEven(p[1] * Pow10(e), p[2]), exp |-> e])

-----------------------------------------------------------------------------
(* counts_probability.cc, main. *)

(* Die(msg): prints the message and ends the process. *)
Die == cpc' = "died"

StartCounts ==
  /\ cpc = "start"
  /\ \/ argc \in 1..2 /\ finOpen = FALSE /\ file = <<>>
     \/ argc = 3 /\ finOpen = FALSE /\ file = <<>>
     \/ argc = 3 /\ finOpen = TRUE /\ file \in Files
  /\ pos = 0
  /\ index = 0
  /\ has_mutation_total = 0
  /\ has_no_mutation_total = 0
  /\ total_trios = 0
  /\ probability = Zero
  /\ probabilities = <<>>
  /\ fout = <<>>
  /\ foutOpen = FALSE

(* Lines 35-37: too few arguments. *)
Usage ==
  /\ cpc = "start"
  /\ UNCHANGED evars
  /\ argc < 3
  /\ Die
  /\ UNCHANGED <<argc, finOpen, file, pos, index, has_mutation_total,
                 has_no_mutation_total, total_trios, probability,
                 probabilities, fout, foutOpen>>

(* Lines 39-43: the input file cannot be read. *)
OpenFails ==
  /\ cpc = "start"
  /\ UNCHANGED evars
  /\ argc >= 3
  /\ ~finOpen
  /\ Die
  /\ UNCHANGED <<argc, finOpen, file, pos, index, has_mutation_total,
                 has_no_mutation_total, total_trios, probability,
                 probabilities, fout, foutOpen>>

(* Lines 39-54: both files are open, the output file is created empty. *)
Open ==
  /\ cpc = "start"
  /\ UNCHANGED evars
  /\ argc >= 3
  /\ finOpen
  /\ cpc' = "read"
  /\ foutOpen' = TRUE
  /\ fout' = <<>>
  /\ UNCHANGED <<argc, finOpen, file, pos, index, has_mutation_total,
                 has_no_mutation_total, total_trios, probability,
                 probabilities>>

(* The probability put in front. *)
PushFront(v, p) == <<p>> \o v

(* probabilities.push_back(probability). *)
PushBack(v, p) == Append(v, p)

(* Lines 56-69: getline delivers a line; one pass of the loop body. *)
ReadLine ==
  /\ cpc = "read"
  /\ UNCHANGED evars
  /\ pos < Len(file)
  /\ LET r == Row(file[pos + 1], index, has_mutation_total,
                  has_no_mutation_total)
     IN /\ index' = r.index
        /\ has_mutation_total' = r.m
        /\ has_no_mutation_total' = r.n
        /\ total_trios' = r.total
        /\ probability' = r.p
        /\ probabilities' = PushBack(probabilities, r.p)
  /\ pos' = pos + 1
  /\ UNCHANGED <<cpc, argc, finOpen, file, fout, foutOpen>>

(* Lines 56, 70: getline fails at the end of the file; fin.close(). *)
EndOfFile ==
  /\ cpc = "read"
  /\ UNCHANGED evars
  /\ pos = Len(file)
  /\ cpc' = "write"
  /\ UNCHANGED <<argc, finOpen, file, pos, index, has_mutation_total,
                 has_no_mutation_total, total_trios, probability,
                 probabilities, fout, foutOpen>>

(* Lines 72-73: copy writes the next element of probabilities and "\n". *)
WriteOne ==
  /\ cpc = "write"
  /\ UNCHANGED evars
  /\ Len(fout) < Len(probabilities)
  /\ fout' = Append(fout, Format(probabilities[Len(fout) + 1]))
  /\ UNCHANGED <<cpc, argc, finOpen, file, pos, index, has_mutation_total,
                 has_no_mutation_total, total_trios, probability,
                 probabilities, foutOpen>>

(* Lines 73-76: copy is through; fout.close(); return 0. *)
CloseOut ==
  /\ cpc = "write"
  /\ UNCHANGED evars
  /\ Len(fout) = Len(probabilities)
  /\ foutOpen' = FALSE
  /\ cpc' = "done"
  /\ UNCHANGED <<argc, finOpen, file, pos, index, has_mutation_total,
                 has_no_mutation_total, total_trios, probability,
                 probabilities, fout>>

NextCounts ==
  \/ Usage
  \/ OpenFails
  \/ Open
  \/ ReadLine
  \/ EndOfFile
  \/ WriteOne
  \/ CloseOut

-----------------------------------------------------------------------------
(* The sequencing error rate is a point of the grid 0..MaxRate.  *)
Rates == 0..MaxRate

(* The kinds of site a pileup delivers. *)
SiteKinds == {"hom", "het"}

SiteVectors == UNION {[1..k -> SiteKinds] : k \in 1..MaxSites}

(* Equal(a, b) of utility: a and b are equal within the tolerance. *)
Tol == 2
Equal(a, b) == Abs(a - b) < Tol

(* TrioModel(): the parameters after construction, with sequencing error
   rate r; the other parameters hold their constructed value, written 1. *)
TrioModel(r) ==
  [population_mutation_rate |-> 1,
   germline_mutation_rate   |-> 1,
   somatic_mutation_rate    |-> 1,
   sequencing_error_rate    |-> r,
   dirichlet_dispersion     |-> 1,
   nucleotide_frequencies   |-> 1]

(* TrioModel::set_sequencing_error_rate(rate). *)
set_sequencing_error_rate(m, r) == [m EXCEPT !.sequencing_error_rate = r]

(* TrioModel::set_germline_mutation_rate(rate). *)
set_germline_mutation_rate(m, r) == [m EXCEPT !.germline_mutation_rate = r]

(* SufficientStatistics(size): the running totals, all zero. *)
SufficientStatistics == [mismatch |-> 0, total |-> 0]

(* SufficientStatistics::Update(model, sites): one pass over the sites adds
   every site's expected statistic under the model's current rate to the
   running totals. *)
Update(st, m, ss) ==
  [mismatch |-> st.mismatch + Len(ss) * estep[m.sequencing_error_rate],
   total    |-> st.total + Len(ss)]

(* SufficientStatistics::Clear(). *)
Clear(st) == [mismatch |-> 0, total |-> 0]

(* SufficientStatistics::MaxSequencingErrorRate(): the maximizer, the ratio
   of the accumulated totals. *)
MaxSequencingErrorRate(st) ==
  IF st.total = 0 THEN 0 ELSE st.mismatch \div st.total

(* One entry of the history of calls: the operation, the model's rate when
   it is called, its argument or result, and the sites handed to it. *)
Call(op, val, ss) ==
  [op |-> op, rate |-> params.sequencing_error_rate, val |-> val, sites |-> ss]

-----------------------------------------------------------------------------
(* bam_driver.cc, main, from the end of the pileup (line 67) on. *)

StartEM ==
  /\ epc = "begin"
  /\ vsites \in SiteVectors
  /\ estep \in [Rates -> Rates]
  /\ params \in {TrioModel(r) : r \in Rates}
  /\ sites = <<>>
  /\ stats = SufficientStatistics
  /\ maximized = 0
  /\ count = 0
  /\ cout = <<>>
  /\ calls = <<>>

(* Lines 70-71: the sites are copied, the accumulator is constructed. *)
Capture ==
  /\ epc = "begin"
  /\ UNCHANGED cvars
  /\ sites' = vsites
  /\ stats' = SufficientStatistics
  /\ epc' = "estep0"
  /\ UNCHANGED <<vsites, estep, params, maximized, count, cout, calls>>

(* Line 72: the initial E-step. *)
FirstUpdate ==
  /\ epc = "estep0"
  /\ UNCHANGED cvars
  /\ stats' = Update(stats, params, sites)
  /\ calls' = Append(calls, Call("Update", 0, sites))
  /\ epc' = "mstep0"
  /\ UNCHANGED <<vsites, estep, params, sites, maximized, count, cout>>

(* Lines 75-76: count = 0 and the first M-step. *)
FirstMax ==
  /\ epc = "mstep0"
  /\ UNCHANGED cvars
  /\ count' = 0
  /\ maximized' = MaxSequencingErrorRate(stats)
  /\ calls' = Append(calls, Call("Max", MaxSequencingErrorRate(stats), <<>>))
  /\ epc' = "test"
  /\ UNCHANGED <<vsites, estep, params, sites, stats, cout>>

(* The loop's condition written with != in place of Equal. *)
LoopEnterExact ==
  /\ epc = "test"
  /\ UNCHANGED cvars
  /\ params.sequencing_error_rate # maximized
  /\ count < MaxIter
  /\ epc' = "set"
  /\ UNCHANGED <<vsites, estep, params, sites, stats, maximized, count, cout,
                 calls>>

(* The loop written as do ... while: the body runs before the first test. *)
LoopEnterDoWhile ==
  /\ epc = "test"
  /\ UNCHANGED cvars
  /\ count = 0 \/ ~Equal(params.sequencing_error_rate, maximized)
  /\ count < MaxIter
  /\ epc' = "set"
  /\ UNCHANGED <<vsites, estep, params, sites, stats, maximized, count, cout,
                 calls>>

(* Line 77: the loop's condition holds; the body is entered.  The guard on
   count bounds the model, not the program. *)
LoopEnter ==
  /\ epc = "test"
  /\ UNCHANGED cvars
  /\ ~Equal(params.sequencing_error_rate, maximized)
  /\ count < MaxIter
  /\ epc' = "set"
  /\ UNCHANGED <<vsites, estep, params, sites, stats, maximized, count, cout,
                 calls>>

(* The loop with a fallback: it is also left after two iterations. *)
LoopExitCapped ==
  /\ epc = "test"
  /\ UNCHANGED cvars
  /\ Equal(params.sequencing_error_rate, maximized) \/ count >= 2
  /\ epc' = "converged"
  /\ UNCHANGED <<vsites, estep, params, sites, stats, maximized, count, cout,
                 calls>>

(* Line 77: the loop's condition fails; the loop is left. *)
LoopExit ==
  /\ epc = "test"
  /\ UNCHANGED cvars
  /\ Equal(params.sequencing_error_rate, maximized)
  /\ epc' = "converged"
  /\ UNCHANGED <<vsites, estep, params, sites, stats, maximized, count, cout,
                 calls>>

(* Line 78 calling another setter of the model. *)
SetOtherRate ==
  /\ epc = "set"
  /\ UNCHANGED cvars
  /\ params' = set_germline_mutation_rate(params, maximized)
  /\ calls' = Append(calls, Call("set_germline_mutation_rate", maximized, <<>>))
  /\ epc' = "clear"
  /\ UNCHANGED <<vsites, estep, sites, stats, maximized, count, cout>>

(* Line 78. *)
SetRate ==
  /\ epc = "set"
  /\ UNCHANGED cvars
  /\ params' = set_sequencing_error_rate(params, maximized)
  /\ calls' = Append(calls, Call("set_sequencing_error_rate", maximized, <<>>))
  /\ epc' = "clear"
  /\ UNCHANGED <<vsites, estep, sites, stats, maximized, count, cout>>

(* Line 79 left out. *)
SkipClear ==
  /\ epc = "clear"
  /\ UNCHANGED cvars
  /\ epc' = "estep"
  /\ UNCHANGED <<vsites, estep, params, sites, stats, maximized, count, cout,
                 calls>>

(* Line 79. *)
ClearStats ==
  /\ epc = "clear"
  /\ UNCHANGED cvars
  /\ stats' = Clear(stats)
  /\ calls' = Append(calls, Call("Clear", 0, <<>>))
  /\ epc' = "estep"
  /\ UNCHANGED <<vsites, estep, params, sites, maximized, count, cout>>

(* Line 80. *)
LoopUpdate ==
  /\ epc = "estep"
  /\ UNCHANGED cvars
  /\ stats' = Update(stats, params, sites)
  /\ calls' = Append(calls, Call("Update", 0, sites))
  /\ epc' = "mstep"
  /\ UNCHANGED <<vsites, estep, params, sites, maximized, count, cout>>

(* Line 81. *)
LoopMax ==
  /\ epc = "mstep"
  /\ UNCHANGED cvars
  /\ maximized' = MaxSequencingErrorRate(stats)
  /\ calls' = Append(calls, Call("Max", MaxSequencingErrorRate(stats), <<>>))
  /\ epc' = "inc"
  /\ UNCHANGED <<vsites, estep, params, sites, stats, count, cout>>

(* Line 82. *)
Increment ==
  /\ epc = "inc"
  /\ UNCHANGED cvars
  /\ count' = count + 1
  /\ epc' = "test"
  /\ UNCHANGED <<vsites, estep, params, sites, stats, maximized, cout, calls>>

(* Line 85 printing the last candidate. *)
ReportCandidate ==
  /\ epc = "converged"
  /\ UNCHANGED cvars
  /\ cout' = Append(cout, maximized)
  /\ epc' = "done"
  /\ UNCHANGED <<vsites, estep, params, sites, stats, maximized, count, calls>>

(* Lines 85-87: the rate is reported; return 0. *)
Report ==
  /\ epc = "converged"
  /\ UNCHANGED cvars
  /\ cout' = Append(cout, params.sequencing_error_rate)
  /\ epc' = "done"
  /\ UNCHANGED <<vsites, estep, params, sites, stats, maximized, count, calls>>

NextEM ==
  \/ Capture
  \/ FirstUpdate
  \/ FirstMax
  \/ LoopEnter
  \/ LoopExit
  \/ SetRate
  \/ ClearStats
  \/ LoopUpdate
  \/ LoopMax
  \/ Increment
  \/ Report

-----------------------------------------------------------------------------
(* Each program runs on its own: the other one's variables stay put. *)
IdleCounts ==
  /\ cpc = "idle" /\ argc = 0 /\ finOpen = FALSE /\ file = <<>> /\ pos = 0
  /\ index = 0 /\ has_mutation_total = 0 /\ has_no_mutation_total = 0
  /\ total_trios = 0 /\ probability = Zero /\ probabilities = <<>>
  /\ fout = <<>> /\ foutOpen = FALSE

IdleEM ==
  /\ epc = "idle" /\ vsites = <<>> /\ estep = [r \in Rates |-> r]
  /\ params = TrioModel(0) /\ sites = <<>> /\ stats = SufficientStatistics
  /\ maximized = 0 /\ count = 0 /\ cout = <<>> /\ calls = <<>>

InitCounts == StartCounts /\ IdleEM
InitEM == StartEM /\ IdleCounts

SpecCounts == InitCounts /\ [][NextCounts]_vars
SpecEM == InitEM /\ [][NextEM]_vars

(* The program runs on: main executes its next statement whenever it has
   one. *)
FairSpecEM == SpecEM /\ WF_vars(NextEM)

-----------------------------------------------------------------------------
(* Properties of counts_probability. *)

(* Line k of the file has its three fields, all of them ints. *)
FullRow(k) ==
  /\ Len(file[k]) = 3
  /\ \A j \in 1..3 : file[k][j].ok

(* The double p is the quotient m / t (t > 0), as rationals. *)
IsQuotient(p, m, t) == p[2] > 0 /\ p[1] * t = m * p[2]

(* The decimal d agrees with m / t to six significant digits. *)
SixDigits(d, m, t) ==
  Abs(d.mant * t - m * Pow10(d.exp)) <= (m * Pow10(d.exp)) \div 200000

(* C1: for every line read that holds (index, m, n), the probability pushed
   for it is m / (m + n), and 0.0 when m + n = 0, and the text written for it
   is that value to six significant digits; the rows (0, 10, 90) and
   (1, 0, 0) are written as 0.1 and 0. *)
C1_EmpiricalProbability ==
  /\ \A k \in 1..pos : FullRow(k) =>
       LET m == file[k][2].v
           n == file[k][3].v
       IN /\ (m + n = 0 => probabilities[k] = Zero)
          /\ (m + n # 0 => IsQuotient(probabilities[k], m, m + n))
          /\ (k <= Len(fout) /\ m + n = 0 => fout[k] = [mant |-> 0, exp |-> 0])
          /\ (k <= Len(fout) /\ m + n # 0 => SixDigits(fout[k], m, m + n))
  /\ \A k \in 1..Len(fout) :
       /\ (file[k] = <<Num(0), Num(10), Num(90)>>
             => fout[k] = [mant |-> 1, exp |-> 1])
       /\ (file[k] = <<Num(1), Num(0), Num(0)>>
             => fout[k] = [mant |-> 0, exp |-> 0])

(* The file of the spec's cross-check has been processed and written. *)
C1_Witness ==
  /\ cpc = "done"
  /\ file = <<(<<Num(0), Num(10), Num(90)>>), (<<Num(1), Num(0), Num(0)>>)>>
  /\ fout = <<[mant |-> 1, exp |-> 1], [mant |-> 0, exp |-> 0]>>

(* C8: one probability per input line, in input order: every line read has
   its entry in probabilities, at the end the output holds as many values as
   the file has lines, the k-th written value is the k-th line's, and nothing
   is written before the last line is read. *)
C8_OnePerLineInOrder ==
  /\ Len(probabilities) = pos
  /\ (fout # <<>> => pos = Len(file) /\ cpc \in {"write", "done"})
  /\ Len(fout) <= Len(probabilities)
  /\ (cpc = "done" => Len(fout) = Len(file))
  /\ \A k \in 1..Len(fout) :
       /\ (fout[k].mant = 0 <=> probabilities[k][1] = 0)
       /\ (fout[k].mant # 0 =>
             SixDigits(fout[k], probabilities[k][1], probabilities[k][2]))
  /\ \A k \in 1..pos : FullRow(k) /\ file[k][2].v + file[k][3].v # 0 =>
       IsQuotient(probabilities[k], file[k][2].v,
                  file[k][2].v + file[k][3].v)

(* A file of two lines with different probabilities is written out. *)
C8_Witness ==
  /\ cpc = "done"
  /\ Len(file) = 2
  /\ FullRow(1) /\ FullRow(2)
  /\ Len(fout) = 2
  /\ fout[1] # fout[2]

(* What the program computes for a line that is the first of its file. *)
OwnValue(line) == Row(line, 0, 0, 0).p

(* C9: the probability of a line depends on that line's fields only: it is
   the value the same line gets as the first line of a file. *)
C9_LineOnly ==
  \A k \in 1..pos : probabilities[k] = OwnValue(file[k])

-----------------------------------------------------------------------------
(* Properties of the EM driver. *)

Ops(i) == calls[i].op

(* The model's rate when the driver began: the rate of the first call. *)
StartRate == calls[1].rate

(* The driver has left the loop. *)
Converged == epc \in {"converged", "done"}

(* The operation at place i of the history: the first E-step and M-step,
   then rounds of set, Clear, Update, Max. *)
Expected(i) ==
  IF i = 1 THEN "Update"
  ELSE IF i = 2 THEN "Max"
  ELSE IF (i - 3) % 4 = 0 THEN "set_sequencing_error_rate"
  ELSE IF (i - 3) % 4 = 1 THEN "Clear"
  ELSE IF (i - 3) % 4 = 2 THEN "Update"
  ELSE "Max"

TransitionRule ==
  /\ \A i \in 1..Len(calls) : Ops(i) = Expected(i)
  /\ \A i \in 1..Len(calls) : Ops(i) = "set_sequencing_error_rate" =>
       /\ calls[i].val = calls[i - 1].val
       /\ calls[i].rate = calls[i - 1].rate
       /\ ~Equal(calls[i - 1].rate, calls[i - 1].val)
  /\ \A i \in 2..Len(calls) : Ops(i) = "Update" =>
       calls[i].rate = calls[i - 3].val
  /\ (Converged =>
        /\ Ops(Len(calls)) = "Max"
        /\ Equal(calls[Len(calls)].rate, calls[Len(calls)].val)
        /\ calls[Len(calls)].rate = params.sequencing_error_rate)

(* C2: a candidate equal to the model's rate within tolerance ends the loop,
   and nothing is set, cleared or updated after that; any other candidate is
   followed by set_sequencing_error_rate(candidate), Clear, Update, Max in
   this order, so that every E-step after the first runs with the rate of
   the M-step before it. *)
C2_TransitionRule ==
  /\ []TransitionRule
  /\ [][Converged => /\ calls' = calls
                     /\ params' = params
                     /\ stats' = stats]_vars

(* The driver has gone twice through the loop and left it. *)
C2_Witness ==
  /\ epc = "done"
  /\ count = 2
  /\ Len(calls) = 10

(* The first candidate equals the starting rate within tolerance. *)
FixedPointInput == Len(calls) >= 2 /\ Equal(StartRate, calls[2].val)

FixedPointSafe ==
  FixedPointInput =>
    /\ count = 0
    /\ Len(calls) = 2
    /\ Ops(1) = "Update" /\ Ops(2) = "Max"
    /\ params.sequencing_error_rate = StartRate
    /\ epc \in {"test", "converged", "done"}
    /\ (epc = "done" <=> cout = <<StartRate>>)
    /\ (epc # "done" => cout = <<>>)

(* C3: on a fixed-point input the driver does not loop: it ends, after one
   Update and one MaxSequencingErrorRate, with count = 0, without Clear or
   set_sequencing_error_rate, and reports the starting rate. *)
C3_FixedPointNoLoop ==
  /\ []FixedPointSafe
  /\ (FixedPointInput ~> epc = "done")

(* A fixed-point input whose candidate is not the starting rate itself has
   been reported. *)
C3_Witness ==
  /\ epc = "done"
  /\ FixedPointInput
  /\ calls[2].val # StartRate

(* C4: at every call of MaxSequencingErrorRate the accumulator holds the
   totals of exactly one Update pass over the sites, made under the model's
   current rate since the accumulator was last empty. *)
C4_OnePassPerMStep ==
  epc \in {"mstep0", "mstep"} =>
    /\ stats.total = Len(sites)
    /\ stats = Update(SufficientStatistics, params, sites)
    /\ Ops(Len(calls)) = "Update"
    /\ (Len(calls) > 1 => Ops(Len(calls) - 1) = "Clear")

(* The second M-step of the loop is about to be made, and one pass is not
   the same as two. *)
C4_Witness ==
  /\ epc = "mstep"
  /\ count = 1
  /\ stats.mismatch > 0

(* No rate is its own candidate within tolerance. *)
NoFixedPoint == \A r \in Rates : ~Equal(r, estep[r])

(* C6: the loop is left only by the test that the candidate equals the
   model's rate; count is only incremented; with a maximizer whose candidate
   differs from the installed rate at every M-step the driver never
   converges and never reports. *)
C6_NoIterationFallback ==
  /\ [](Converged => Equal(params.sequencing_error_rate, maximized))
  /\ [](NoFixedPoint => ~Converged /\ cout = <<>>)
  /\ [][count' = count \/ count' = count + 1]_vars
  /\ [][epc' = "converged" =>
          epc = "test" /\ Equal(params.sequencing_error_rate, maximized)]_vars

(* A driver that has gone MaxIter times through the loop is still in it. *)
C6_Witness ==
  /\ NoFixedPoint
  /\ epc = "test"
  /\ count = MaxIter
  /\ ~Equal(params.sequencing_error_rate, maximized)

(* C7: at convergence the reported rate is the model's installed rate; it
   equals within tolerance the candidate of the last M-step, which was
   computed from one pass under that installed rate; the last candidate is
   not installed: the reported rate is the starting rate (no iteration) or
   the candidate of the M-step before the last one. *)
C7_ReportedRate ==
  Converged =>
    LET n == Len(calls) IN
    /\ (epc = "done" => cout = <<params.sequencing_error_rate>>)
    /\ Ops(n) = "Max" /\ calls[n].val = maximized
    /\ Equal(params.sequencing_error_rate, maximized)
    /\ Ops(n - 1) = "Update"
    /\ calls[n - 1].rate = params.sequencing_error_rate
    /\ maximized = MaxSequencingErrorRate(
                     Update(SufficientStatistics, params, sites))
    /\ (count = 0 => n = 2 /\ params.sequencing_error_rate = StartRate)
    /\ (count > 0 =>
          /\ n = 2 + 4 * count
          /\ Ops(n - 4) = "Max"
          /\ params.sequencing_error_rate = calls[n - 4].val)

(* A rate that is not the last candidate has been reported after a loop. *)
C7_Witness ==
  /\ epc = "done"
  /\ count > 0
  /\ maximized # params.sequencing_error_rate
  /\ cout = <<params.sequencing_error_rate>>

(* C10: in the EM loop only the model's sequencing_error_rate and the
   accumulator change: the sites captured before the first E-step are the
   ones handed to every Update, the model's other parameters keep their
   constructed values, and no other setter is called. *)
C10_Frame ==
  /\ (epc # "begin" => sites = vsites)
  /\ [params EXCEPT !.sequencing_error_rate = 0] = TrioModel(0)
  /\ \A i \in 1..Len(calls) :
       /\ Ops(i) \in {"Update", "Max", "set_sequencing_error_rate", "Clear"}
       /\ (Ops(i) = "Update" => calls[i].sites = vsites)

(* The loop has installed a new rate and made its E-step over two sites. *)
C10_Witness ==
  /\ epc = "mstep"
  /\ Len(sites) = 2
  /\ sites[1] # sites[2]
  /\ params.sequencing_error_rate # StartRate

====
